---- MODULE Spec2Model ----
(***************************************************************************)
(* Model of the snake game core of src/src/lib.rs: the Snake body engine   *)
(* (move_ahead, grow, eats_himself, is_out_of_bounds) and the GameState    *)
(* session controller (new, on_key_down, step).                            *)
(*                                                                         *)
(* The host calls on_key_down and step from one event loop, so every       *)
(* entry point is one atomic action.  The extern functions of the host     *)
(* (canvas_*, snake_*, js_random) are recorded, in call order, in `calls`. *)
(***************************************************************************)
EXTENDS Integers, Sequences, FiniteSets, Bags, TLC

\* ---------------------------------------------------------------- constants
COLOR_BACKGROUND == 0
COLOR_SNAKE == 65280
COLOR_APPLE == 16711680
KEY_CODE_ARROW_UP == 0
KEY_CODE_ARROW_DOWN == 1
KEY_CODE_ARROW_LEFT == 2
KEY_CODE_ARROW_RIGHT == 3
CELL_SIZE == 10

\* The grid of the source is 40 x 40; the model keeps every formula of the
\* source in terms of GRID_WIDTH and GRID_HEIGHT and explores a smaller grid.
GRID_WIDTH == 5
GRID_HEIGHT == 3

\* segments: [Position; GRID_WIDTH * GRID_HEIGHT]
Capacity == GRID_WIDTH * GRID_HEIGHT

\* The host may keep calling step after snake_game_over(); the model follows
\* it for this many further ticks.
MaxPostTicks == 1

\* Length of the sessions explored with key events.
MaxTicks == 4

\* One code outside the four recognised ones stands for every such code.
KeyCodes == 0 .. 4

INITIAL_LENGTH == 4
INITIAL_HEAD_INDEX == 3
INITIAL_STEP_PERIOD == 300
INITIAL_NEXT_REWARD == 10
MIN_STEP_PERIOD == 50
STEP_PERIOD_DECREMENT == 25
REWARD_INCREMENT == 10

\* ------------------------------------------------------- geometry primitives
Directions == {"Up", "Down", "Left", "Right"}

\* the relation with its last pair forgotten
direction_is_opposite_one_way(dir, other) ==
    \/ dir = "Up" /\ other = "Down"
    \/ dir = "Down" /\ other = "Up"
    \/ dir = "Left" /\ other = "Right"

direction_is_opposite(dir, other) ==
    \/ dir = "Up" /\ other = "Down"
    \/ dir = "Down" /\ other = "Up"
    \/ dir = "Left" /\ other = "Right"
    \/ dir = "Right" /\ other = "Left"

Position(px, py) == [x |-> px, y |-> py]

position_moved(pos, d) ==
    CASE d = "Up" -> [pos EXCEPT !.y = @ - 1]
      [] d = "Down" -> [pos EXCEPT !.y = @ + 1]
      [] d = "Left" -> [pos EXCEPT !.x = @ - 1]
      [] d = "Right" -> [pos EXCEPT !.x = @ + 1]

\* ------------------------------------------------------------------- state
VARIABLES
    segments,       \* Snake.segments: slot 0 .. Capacity-1 -> Position
    length,         \* Snake.length
    head_index,     \* Snake.head_index
    direction,      \* Snake.direction
    apple,          \* GameState.apple
    step_period,    \* GameState.step_period
    score,          \* GameState.score
    next_reward,    \* GameState.next_reward
    calls,          \* extern calls made by the last entry point, in order
    last,           \* the last entry point executed and its argument
    panicked,       \* an entry point aborted (todo!() or index out of bounds)
    game_over,      \* snake_game_over() has been called at least once
    post_ticks,     \* ticks executed after the first snake_game_over()
    ticks,          \* ticks executed so far
    order,          \* occupied slots, from the one written longest ago to the newest
    tick_direction, \* heading used by the last tick (construction heading at first)
    survivor        \* latest accepted request since the last tick, or "none"

vars == <<segments, length, head_index, direction, apple, step_period, score,
          next_reward, calls, last, panicked, game_over, post_ticks, ticks, order,
          tick_direction, survivor>>

\* --------------------------------------------------------------- Snake impl
head_position(segs, hi) == segs[hi]

next_head_position(segs, hi, d) == position_moved(segs[hi], d)

\* the scan without its `continue` for the head slot
RECURSIVE eats_himself_no_skip(_, _, _, _)
eats_himself_no_skip(segs, len, hi, i) ==
    IF i >= len THEN FALSE
    ELSE IF head_position(segs, hi) = segs[i] THEN TRUE
    ELSE eats_himself_no_skip(segs, len, hi, i + 1)

\* for i in 0..length { if i == head_index {continue}; if head == segments[i] {return true} } false
RECURSIVE eats_himself_from(_, _, _, _)
eats_himself_from(segs, len, hi, i) ==
    IF i >= len THEN FALSE
    ELSE IF i = hi THEN eats_himself_from(segs, len, hi, i + 1)
    ELSE IF head_position(segs, hi) = segs[i] THEN TRUE
    ELSE eats_himself_from(segs, len, hi, i + 1)

eats_himself(segs, len, hi) == eats_himself_from(segs, len, hi, 0)

\* the upper bounds compared with > instead of >=
is_out_of_bounds_inclusive(segs, hi, width, height) ==
    LET hp == head_position(segs, hi) IN
        \/ hp.x < 0
        \/ hp.x > width
        \/ hp.y < 0
        \/ hp.y > height

\* only the upper bounds tested
is_out_of_bounds_no_lower(segs, hi, width, height) ==
    LET hp == head_position(segs, hi) IN
        \/ hp.x >= width
        \/ hp.y >= height

is_out_of_bounds(segs, hi, width, height) ==
    LET hp == head_position(segs, hi) IN
        \/ hp.x < 0
        \/ hp.x >= width
        \/ hp.y < 0
        \/ hp.y >= height

\* the head index wrapped at the end of the backing buffer
move_ahead_index_at_capacity(len, hi) == IF hi = Capacity - 1 THEN 0 ELSE hi + 1

\* the wrap taken one slot late, at head_index == length
move_ahead_index_late(len, hi) == IF hi = len THEN 0 ELSE hi + 1

\* head_index after move_ahead
move_ahead_index(len, hi) == IF hi = len - 1 THEN 0 ELSE hi + 1

\* segments after move_ahead
move_ahead(segs, len, hi, d) ==
    [segs EXCEPT ![move_ahead_index(len, hi)] = next_head_position(segs, hi, d)]

\* the shift walked upwards: for i in head_index..length { segments[i + 1] = segments[i] }
RECURSIVE shift_right_ascending_from(_, _, _)
shift_right_ascending_from(segs, i, hi) ==
    IF i > hi THEN segs
    ELSE shift_right_ascending_from([segs EXCEPT ![i + 1] = segs[i]], i + 1, hi)

shift_right_ascending(segs, i, lo) == shift_right_ascending_from(segs, lo, i)

\* for i in (head_index..length).rev() { segments[i + 1] = segments[i] }
RECURSIVE shift_right(_, _, _)
shift_right(segs, i, lo) ==
    IF i < lo THEN segs
    ELSE shift_right([segs EXCEPT ![i + 1] = segs[i]], i - 1, lo)

\* grow writes segments[length] (first branch, or the first round of the loop)
\* and segments[head_index + 1]: an index past the array aborts the call.
grow_out_of_range(len, hi) ==
    IF hi = len THEN len >= Capacity
    ELSE (hi < len /\ len >= Capacity) \/ hi + 1 >= Capacity

\* segments after grow (length < capacity)
grow(segs, len, hi, d) ==
    LET nh == next_head_position(segs, hi, d) IN
        IF hi = len THEN [segs EXCEPT ![len] = nh]
        ELSE [shift_right(segs, len - 1, hi) EXCEPT ![hi + 1] = nh]

\* ------------------------------------------------------------ extern calls
Call(f, a) == [fn |-> f, args |-> a]

\* `v as usize * CELL_SIZE` of paint_snake and paint_apple, a 32-bit word of
\* the wasm32 target written by its two's-complement reading: a negative
\* result r stands for the word 2^32 + r that the wrapping product yields.
pixel(v) == v * CELL_SIZE

\* The product leaves the range of usize: a negative i32 casts to a usize of
\* at least 2^31.  A build with overflow checks aborts there, one without
\* them wraps.
pixel_overflows(v) == v < 0 \/ v > 429496729

paint_background ==
    << Call("canvas_set_fill_style", <<COLOR_BACKGROUND>>),
       Call("canvas_fill_rect", <<0, 0, GRID_WIDTH * CELL_SIZE, GRID_HEIGHT * CELL_SIZE>>) >>

paint_snake(segs, len) ==
    << Call("canvas_set_fill_style", <<COLOR_SNAKE>>) >> \o
    [i \in 1 .. len |->
        Call("canvas_fill_rect",
             <<pixel(segs[i - 1].x), pixel(segs[i - 1].y), CELL_SIZE, CELL_SIZE>>)]

paint_apple(a) ==
    << Call("canvas_set_fill_style", <<COLOR_APPLE>>),
       Call("canvas_fill_rect", <<pixel(a.x), pixel(a.y), CELL_SIZE, CELL_SIZE>>) >>

repaint(segs, len, a) ==
    paint_background \o paint_snake(segs, len) \o paint_apple(a)
        \o << Call("canvas_fill", <<>>) >>

\* the occupied slots whose painting overflows
overflowing_slots(segs, len) ==
    {i \in 0 .. len - 1 : pixel_overflows(segs[i].x) \/ pixel_overflows(segs[i].y)}

repaint_overflows(segs, len, a) ==
    \/ overflowing_slots(segs, len) # {}
    \/ pixel_overflows(a.x) \/ pixel_overflows(a.y)

\* the calls of a repaint that aborts at its first overflowing product
repaint_aborted(segs, len, a) ==
    LET bad == overflowing_slots(segs, len) IN
        IF bad # {}
        THEN paint_background
                 \o paint_snake(segs, CHOOSE i \in bad : \A j \in bad : i <= j)
        ELSE paint_background \o paint_snake(segs, len)
                 \o << Call("canvas_set_fill_style", <<COLOR_APPLE>>) >>

\* the two js_random calls of teleport_apple, with the values they returned
teleport_apple(rx, ry) ==
    << Call("js_random", <<GRID_WIDTH, rx>>), Call("js_random", <<GRID_HEIGHT, ry>>) >>

\* js_random(max) returns a value in [0, max)
RandomBelow(max) == 0 .. max - 1

\* ---------------------------------------------------------- GameState impl
\* the test made on the head instead of the cell ahead of it
snake_will_eat_apple_at_head == head_position(segments, head_index) = apple

snake_will_eat_apple == next_head_position(segments, head_index, direction) = apple

\* the floor tested with >= instead of >
speedup_game_at_floor(period) ==
    IF period >= MIN_STEP_PERIOD THEN period - STEP_PERIOD_DECREMENT ELSE period

\* step_period after speedup_game
speedup_game(period) ==
    IF period > MIN_STEP_PERIOD THEN period - STEP_PERIOD_DECREMENT ELSE period

speedup_game_calls(period) ==
    IF period > MIN_STEP_PERIOD
    THEN << Call("snake_step_period_updated", <<period - STEP_PERIOD_DECREMENT>>) >>
    ELSE << >>

\* the reward raised before it is added to the score
update_score_reward_first(s, r) == <<s + r + REWARD_INCREMENT, r + REWARD_INCREMENT>>

\* <<score, next_reward>> after update_score
\* the reward left as it was
update_score_constant_reward(s, r) == <<s + r, r>>

update_score(s, r) == <<s + r, r + REWARD_INCREMENT>>

\* the request applied without the opposite-direction test
change_snake_direction_unchecked(cur, d) == d

\* heading after change_snake_direction(d)
change_snake_direction(cur, d) == IF direction_is_opposite(cur, d) THEN cur ELSE d

KeyDirection(code) ==
    CASE code = KEY_CODE_ARROW_UP -> "Up"
      [] code = KEY_CODE_ARROW_DOWN -> "Down"
      [] code = KEY_CODE_ARROW_LEFT -> "Left"
      [] code = KEY_CODE_ARROW_RIGHT -> "Right"

RecognisedCodes ==
    {KEY_CODE_ARROW_UP, KEY_CODE_ARROW_DOWN, KEY_CODE_ARROW_LEFT, KEY_CODE_ARROW_RIGHT}

\* GameState::new
Init ==
    \E rx \in RandomBelow(GRID_WIDTH), ry \in RandomBelow(GRID_HEIGHT) :
        /\ segments = [i \in 0 .. Capacity - 1 |->
                           IF i \in 1 .. 3 THEN Position(i, 0) ELSE Position(0, 0)]
        /\ length = INITIAL_LENGTH
        /\ head_index = INITIAL_HEAD_INDEX
        /\ direction = "Right"
        /\ apple = Position(rx, ry)
        /\ step_period = INITIAL_STEP_PERIOD
        /\ score = 0
        /\ next_reward = INITIAL_NEXT_REWARD
        /\ calls = teleport_apple(rx, ry) \o repaint(segments, length, apple)
                        \o << Call("snake_score_changed", <<0>>) >>
        /\ last = [op |-> "new", arg |-> 0]
        /\ panicked = FALSE
        /\ game_over = FALSE
        /\ post_ticks = 0
        /\ ticks = 0
        /\ order = [i \in 1 .. INITIAL_LENGTH |-> i - 1]
        /\ tick_direction = "Right"
        /\ survivor = "none"

\* The host's event loop: no call after an abort, and at most MaxPostTicks
\* ticks after the first game over.
CanCall == ~panicked

CanTick == CanCall /\ (game_over => post_ticks < MaxPostTicks)

\* on_key_down with `_ => {}` as its last arm: an unknown code is ignored
on_key_down_lenient(code) ==
    /\ CanCall
    /\ calls' = << >>
    /\ last' = [op |-> "on_key_down", arg |-> code]
    /\ IF code \in RecognisedCodes
       THEN /\ direction' = change_snake_direction(direction, KeyDirection(code))
            /\ survivor' = IF direction_is_opposite(direction, KeyDirection(code))
                           THEN survivor ELSE KeyDirection(code)
       ELSE UNCHANGED <<direction, survivor>>
    /\ UNCHANGED <<segments, length, head_index, apple, step_period, score, next_reward,
                   panicked, game_over, post_ticks, ticks, order, tick_direction>>

\* GameState::on_key_down.  One of the four key codes requests a heading; any
\* other code reaches todo!() and aborts the call.
on_key_down(code) ==
    /\ CanCall
    /\ calls' = << >>
    /\ last' = [op |-> "on_key_down", arg |-> code]
    /\ IF code \in RecognisedCodes
       THEN /\ direction' = change_snake_direction(direction, KeyDirection(code))
            /\ survivor' = IF direction_is_opposite(direction, KeyDirection(code))
                           THEN survivor ELSE KeyDirection(code)
            /\ UNCHANGED panicked
       ELSE /\ panicked' = TRUE
            /\ UNCHANGED <<direction, survivor>>
    /\ UNCHANGED <<segments, length, head_index, apple, step_period, score,
                   next_reward, game_over, post_ticks, ticks, order, tick_direction>>

\* the termination check and the repaint that end step; a repaint whose
\* pixel products overflow either aborts the call or goes on with wrapped words
step_tail(segs, len, hi, a, before) ==
    LET over == is_out_of_bounds(segs, hi, GRID_WIDTH, GRID_HEIGHT)
                    \/ eats_himself(segs, len, hi)
        checked == before \o (IF over THEN << Call("snake_game_over", <<>>) >> ELSE << >>)
    IN  /\ \/ /\ calls' = checked \o repaint(segs, len, a)
              /\ UNCHANGED panicked
           \/ /\ repaint_overflows(segs, len, a)
              /\ calls' = checked \o repaint_aborted(segs, len, a)
              /\ panicked' = TRUE
        /\ game_over' = (game_over \/ over)
        /\ post_ticks' = IF game_over THEN post_ticks + 1 ELSE post_ticks
        /\ tick_direction' = direction
        /\ survivor' = "none"

\* step, the snake eats the apple; js_random returns rx, then ry
step_grow(rx, ry) ==
    /\ segments' = grow(segments, length, head_index, direction)
    /\ length' = length + 1
    /\ apple' = Position(rx, ry)
    /\ step_period' = speedup_game(step_period)
    /\ score' = update_score(score, next_reward)[1]
    /\ next_reward' = update_score(score, next_reward)[2]
    /\ order' = IF head_index = length THEN Append(order, length)
                ELSE Append([k \in 1 .. Len(order) |->
                                IF order[k] > head_index THEN order[k] + 1 ELSE order[k]],
                            head_index + 1)
    /\ step_tail(segments', length', head_index, apple',
                 teleport_apple(rx, ry) \o speedup_game_calls(step_period)
                     \o << Call("snake_score_changed", <<score'>>) >>)
    /\ UNCHANGED <<head_index, direction>>

\* step, the snake eats the apple with a full buffer: grow aborts the call
step_grow_abort ==
    /\ panicked' = TRUE
    /\ calls' = << >>
    /\ UNCHANGED <<segments, length, head_index, direction, apple, step_period, score,
                   next_reward, game_over, post_ticks, order, tick_direction, survivor>>

\* the else branch with teleport_apple() called on it as well
step_move_relocating ==
    /\ segments' = move_ahead(segments, length, head_index, direction)
    /\ head_index' = move_ahead_index(length, head_index)
    /\ order' = Append(SelectSeq(order, LAMBDA s : s # head_index'), head_index')
    /\ \E rx \in RandomBelow(GRID_WIDTH), ry \in RandomBelow(GRID_HEIGHT) :
           /\ apple' = Position(rx, ry)
           /\ step_tail(segments', length, head_index', apple', teleport_apple(rx, ry))
    /\ UNCHANGED <<length, direction, step_period, score, next_reward>>

\* step, the snake does not eat
step_move ==
    /\ segments' = move_ahead(segments, length, head_index, direction)
    /\ head_index' = move_ahead_index(length, head_index)
    /\ order' = Append(SelectSeq(order, LAMBDA s : s # head_index'), head_index')
    /\ step_tail(segments', length, head_index', apple, << >>)
    /\ UNCHANGED <<length, direction, apple, step_period, score, next_reward>>

\* GameState::step
step ==
    /\ CanTick
    /\ last' = [op |-> "step", arg |-> 0]
    /\ ticks' = ticks + 1
    /\ IF snake_will_eat_apple
       THEN IF grow_out_of_range(length, head_index)
            THEN step_grow_abort
            ELSE \E rx \in RandomBelow(GRID_WIDTH), ry \in RandomBelow(GRID_HEIGHT) :
                     step_grow(rx, ry)
       ELSE step_move

\* A session of at most MaxTicks ticks, with any key events in between.
Next ==
    \/ \E code \in KeyCodes : on_key_down(code)
    \/ ticks < MaxTicks /\ step

Spec == Init /\ [][Next]_vars

\* A session of any length in which the player holds course: the only keys
\* pressed are Right (the heading) and Left (its opposite).
NextStraight ==
    \/ \E code \in {KEY_CODE_ARROW_LEFT, KEY_CODE_ARROW_RIGHT} : on_key_down(code)
    \/ step

SpecStraight == Init /\ [][NextStraight]_vars

\* ================================================================ properties
\* The transition is a call of step that returned / a call of on_key_down
\* with a recognised code.  (A stuttering step satisfies every [A]_vars.)
TickReturned == last'.op = "step" /\ ~panicked'

\* The transition is a call of step that ran its update and reached repaint()
\* (every repaint, also one that aborts, begins with the background calls);
\* the other calls of step stopped in grow() on a full buffer.
TickUpdated == last'.op = "step" /\ calls' # << >>

\* the cell one step ahead of the head slot, and whether the apple lies on it
Ahead == position_moved(segments[head_index], direction)

EatingTick == TickUpdated /\ Ahead = apple

MovingTick == TickUpdated /\ Ahead # apple

KeyEvent == last'.op = "on_key_down" /\ ~panicked'

\* the occupied-position collection segments[0..length), with multiplicity
Occupied(segs, len) ==
    [p \in {segs[i] : i \in 0 .. len - 1} |->
        Cardinality({i \in 0 .. len - 1 : segs[i] = p})]

One(p) == SetToBag({p})

\* the extern calls to f made by the last entry point
CallsTo(cs, f) == SelectSeq(cs, LAMBDA c : c.fn = f)

InGrid(p) == p.x >= 0 /\ p.x < GRID_WIDTH /\ p.y >= 0 /\ p.y < GRID_HEIGHT

\* ------------------------------------------------------------------------ C1
\* C1: a non-eating tick leaves length unchanged and makes the occupied
\* positions equal to the old ones minus the position that has been part of
\* the body longest plus the new head position.
C1_AdvanceEvictsOldest ==
    [][MovingTick =>
          /\ length' = length
          /\ Occupied(segments', length') =
                 (Occupied(segments, length) (-) One(segments[order[1]]))
                     (+) One(Ahead)]_vars

\* ------------------------------------------------------------------------ C2
\* C2: with length < capacity, grow() increases length by exactly 1 and the
\* occupied positions become the old ones plus the new head position; no
\* previously occupied position value is lost or altered.
C2_GrowAddsHead ==
    [][(EatingTick /\ length < Capacity) =>
          /\ length' = length + 1
          /\ Occupied(segments', length') =
                 Occupied(segments, length)
                     (+) One(Ahead)]_vars

\* a grow that shifted at least two slots of a snake whose head index had wrapped
C2_Witness ==
    /\ last.op = "step"
    /\ Len(CallsTo(calls, "snake_score_changed")) = 1
    /\ head_index + 2 < length
    /\ head_index < INITIAL_HEAD_INDEX

\* ------------------------------------------------------------------------ C3
\* C3: grow() increments head_index by one, and after every tick, eating or
\* not, head_position() is what next_head_position() was before the tick.
C3_HeadFollowsEveryTick ==
    [][TickReturned =>
          /\ Ahead = apple => head_index' = head_index + 1
          /\ segments'[head_index'] = Ahead]_vars

\* ------------------------------------------------------------------------ C4
\* C4: a tick grows the snake and relocates the apple iff the cell ahead of
\* the head is the apple's; otherwise it advances, length and apple unchanged.
\* The first tick of a session still heading Right starts from length 4,
\* segments (0,0),(1,0),(2,0),(3,0), head_index 3, score 0, step_period 300,
\* next_reward 10, and yields head (4,0), positions {(4,0),(3,0),(2,0),(1,0)}
\* and length 4 when the apple is not at (4,0), length 5 and a relocated
\* apple when it is.
C4_StepGrowsIffApple ==
    [][TickReturned =>
          /\ IF Ahead = apple
             THEN /\ length' = length + 1
                  /\ Len(CallsTo(calls', "js_random")) = 2
                  /\ apple' = Position(CallsTo(calls', "js_random")[1].args[2],
                                       CallsTo(calls', "js_random")[2].args[2])
             ELSE /\ length' = length
                  /\ apple' = apple
                  /\ CallsTo(calls', "js_random") = << >>
          /\ (ticks = 0 /\ direction = "Right") =>
                /\ length = 4 /\ head_index = 3
                /\ \A i \in 0 .. 3 : segments[i] = Position(i, 0)
                /\ score = 0 /\ step_period = 300 /\ next_reward = 10
                /\ apple # Position(4, 0) =>
                      /\ segments'[head_index'] = Position(4, 0)
                      /\ {segments'[i] : i \in 0 .. length' - 1} =
                             {Position(4, 0), Position(3, 0), Position(2, 0), Position(1, 0)}
                      /\ length' = 4
                /\ apple = Position(4, 0) => length' = 5]_vars

\* the first tick of a session ate the apple at (4,0)
C4_Witness ==
    /\ last.op = "step" /\ ~panicked
    /\ ticks = 1
    /\ length = 5
    /\ Len(CallsTo(calls, "js_random")) = 2

\* ------------------------------------------------------------------------ C5
HeadOut ==
    \/ segments[head_index].x < 0
    \/ segments[head_index].x >= GRID_WIDTH
    \/ segments[head_index].y < 0
    \/ segments[head_index].y >= GRID_HEIGHT

HeadOnBody ==
    \E i \in 0 .. length - 1 : i # head_index /\ segments[i] = segments[head_index]

\* C5: a tick notifies the game-over collaborator iff, after the snake update
\* of that tick, the head (the position in the head slot) is out of bounds
\* or equals the position of another occupied slot.
C5_GameOverIffOutOrOnBody ==
    [][TickReturned =>
          ((CallsTo(calls', "snake_game_over") # << >>) <=> (HeadOut' \/ HeadOnBody'))]_vars

\* a tick that signalled game over for a head inside the grid
C5_Witness ==
    /\ last.op = "step" /\ ~panicked
    /\ CallsTo(calls, "snake_game_over") # << >>
    /\ InGrid(segments[head_index])
    /\ post_ticks = 0

\* ------------------------------------------------------------------------ C6
\* C6: eats_himself() is true iff some occupied slot other than the head slot
\* holds the head's (x,y); it is false for the freshly initialised snake.
C6_EatsHimselfIffOtherSlotAtHead ==
    /\ eats_himself(segments, length, head_index) <=> HeadOnBody
    /\ ticks = 0 => ~eats_himself(segments, length, head_index)

\* the head shares its cell with another occupied slot
C6_Witness ==
    /\ eats_himself(segments, length, head_index)
    /\ InGrid(segments[head_index])
    /\ head_index # length - 1

\* ------------------------------------------------------------------------ C7
Antiparallel(a, b) == {a, b} = {"Up", "Down"} \/ {a, b} = {"Left", "Right"}

\* C7: a direction request is rejected, the heading unchanged, iff it is the
\* exact opposite of the heading at the moment of the event; otherwise the
\* heading becomes the request.  Hence between two ticks the heading is the
\* latest request that was not opposite to the heading it met, or the
\* heading of the last tick if every request was rejected.
C7_OppositeRequestRejected ==
    [][KeyEvent =>
          /\ direction' = IF Antiparallel(direction, KeyDirection(last'.arg))
                          THEN direction ELSE KeyDirection(last'.arg)
          /\ direction' = IF survivor' = "none" THEN tick_direction' ELSE survivor']_vars

\* a request that was rejected after an earlier one had been accepted
C7_Witness ==
    /\ last.op = "on_key_down" /\ ~panicked
    /\ KeyDirection(last.arg) # direction
    /\ survivor = direction
    /\ direction # tick_direction

\* ------------------------------------------------------------------------ C8
\* C8: from score 0 and next_reward 10, each food-eaten tick adds next_reward
\* to score and then 10 to next_reward (10/20 after one, 30/30 after two); no
\* other event changes them.  The score collaborator is notified once at
\* session init with 0, once per food-eaten tick with the new score, and on
\* no other tick or key event.
C8_ScoreProgression ==
    [][/\ last.op = "new" =>
             /\ score = 0 /\ next_reward = 10
             /\ CallsTo(calls, "snake_score_changed")
                    = << Call("snake_score_changed", <<0>>) >>
       /\ IF EatingTick
          THEN /\ score' = score + next_reward
               /\ next_reward' = next_reward + 10
               /\ CallsTo(calls', "snake_score_changed")
                      = << Call("snake_score_changed", <<score'>>) >>
          ELSE /\ score' = score
               /\ next_reward' = next_reward
               /\ CallsTo(calls', "snake_score_changed") = << >>
       /\ length' = 5 => (score' = 10 /\ next_reward' = 20)
       /\ length' = 6 => (score' = 30 /\ next_reward' = 30)
       /\ score' >= score]_vars

\* the second food-eaten tick of a session
C8_Witness ==
    /\ last.op = "step" /\ ~panicked
    /\ score = 30 /\ next_reward = 30
    /\ CallsTo(calls, "snake_score_changed") = << Call("snake_score_changed", <<30>>) >>

\* ------------------------------------------------------------------------ C9
\* C9: step_period starts at 300, decreases by exactly 25 on each food-eaten
\* tick while above 50 and is unchanged by every other event; it stays within
\* 50 .. 300 and never leaves 50.  The period collaborator is notified on a
\* tick iff the period decreased on it, with the new value.
C9_StepPeriodFloor ==
    [][/\ last.op = "new" => step_period = 300
       /\ IF EatingTick /\ step_period > 50
          THEN /\ step_period' = step_period - 25
               /\ CallsTo(calls', "snake_step_period_updated")
                      = << Call("snake_step_period_updated", <<step_period'>>) >>
          ELSE /\ step_period' = step_period
               /\ CallsTo(calls', "snake_step_period_updated") = << >>
       /\ 50 <= step_period' /\ step_period' <= 300
       /\ step_period = 50 => step_period' = 50]_vars

\* a food-eaten tick at the floor: no decrease and no notification
C9_Witness ==
    /\ last.op = "step" /\ ~panicked
    /\ step_period = 50
    /\ CallsTo(calls, "snake_score_changed") # << >>
    /\ CallsTo(calls, "snake_step_period_updated") = << >>

\* ----------------------------------------------------------------------- C10
\* C10: while no game over has been signalled, 1 <= length <= capacity and
\* grow() is never invoked with length = capacity.
C10_CapacityNeverExhausted ==
    ~game_over =>
        /\ 1 <= length /\ length <= Capacity
        /\ ~(panicked /\ last.op = "step")

\* ----------------------------------------------------------------------- C11
\* C11: while no game over has been signalled, the positions held in the
\* occupied slots segments[0..length) are pairwise distinct.
C11_OccupiedPairwiseDistinct ==
    ~game_over =>
        \A i, j \in 0 .. length - 1 : i # j => segments[i] # segments[j]

\* ----------------------------------------------------------------------- C12
\* C12: direction_is_opposite is symmetric and irreflexive over the four
\* directions and holds exactly for the pairs (Up,Down) and (Left,Right); the
\* requests the session has turned down are exactly the antiparallel ones.
C12_OppositeIsAntiparallel ==
    /\ \A a, b \in Directions :
          /\ direction_is_opposite(a, b) <=> direction_is_opposite(b, a)
          /\ ~direction_is_opposite(a, a)
          /\ direction_is_opposite(a, b) <=>
                 ({a, b} = {"Up", "Down"} \/ {a, b} = {"Left", "Right"})
    /\ (last.op = "on_key_down" /\ ~panicked) =>
          (direction_is_opposite(direction, KeyDirection(last.arg))
              <=> direction # KeyDirection(last.arg))

\* heading Up, the request Down has just been turned down
C12_Witness ==
    /\ last.op = "on_key_down" /\ ~panicked
    /\ direction = "Up"
    /\ KeyDirection(last.arg) = "Down"
    /\ direction_is_opposite(direction, KeyDirection(last.arg))

\* ----------------------------------------------------------------------- C13
\* C13: whatever keys arrive between two consecutive ticks, the heading used
\* by the later tick is never the exact opposite of the heading used by the
\* earlier one.
C13_NoReversalBetweenTicks ==
    [][(TickReturned /\ ticks >= 1) => ~Antiparallel(direction, tick_direction)]_vars

\* ----------------------------------------------------------------------- C14
\* C14 as stated: move_ahead sets head_index to (head_index + 1) mod capacity
\* and writes the new head position into that slot.
C14_WrapsAtCapacity ==
    [][MovingTick =>
          /\ head_index' = (head_index + 1) % Capacity
          /\ segments' = [segments EXCEPT ![head_index'] = Ahead]]_vars

\* C14 as amended: move_ahead sets head_index to (head_index + 1) mod length,
\* wrapping to 0 when it leaves the last occupied slot length - 1, and writes
\* the new head position into that slot.
C14_WrapsAtLength ==
    [][MovingTick =>
          /\ head_index' = (head_index + 1) % length
          /\ segments' = [segments EXCEPT ![head_index'] = Ahead]]_vars

\* the head index has wrapped to 0 in a buffer with free slots behind length
C14_Witness ==
    /\ last.op = "step" /\ ~panicked
    /\ CallsTo(calls, "snake_score_changed") = << >>
    /\ head_index = 0
    /\ length < Capacity
    /\ order[Len(order)] = 0

\* ----------------------------------------------------------------------- C15
\* C15: on_key_down changes at most the heading; step never changes the
\* heading; the apple changes only on a food-eaten tick.
C15_FrameConditions ==
    [][/\ last'.op = "on_key_down" =>
             UNCHANGED <<segments, length, head_index, apple, score, next_reward,
                         step_period>>
       /\ last'.op = "step" => direction' = direction
       /\ apple' # apple => EatingTick]_vars

\* a key event turned the snake in the middle of a session
C15_Witness ==
    /\ last.op = "on_key_down" /\ ~panicked
    /\ ticks >= 1
    /\ direction # tick_direction
    /\ direction = KeyDirection(last.arg)

\* ----------------------------------------------------------------------- C16
\* a period notification comes before the score notification, and both come
\* before a game-over notification
NotificationsInOrder(cs) ==
    \A i, j \in 1 .. Len(cs) :
        /\ (cs[i].fn = "snake_step_period_updated" /\ cs[j].fn = "snake_score_changed")
               => i < j
        /\ (cs[i].fn \in {"snake_step_period_updated", "snake_score_changed"}
               /\ cs[j].fn = "snake_game_over") => i < j

\* background, then the len occupied slots, then the food, then the flush
FullRepaint(segs, len, a) ==
    << [fn |-> "canvas_set_fill_style", args |-> <<0>>],
       [fn |-> "canvas_fill_rect", args |-> <<0, 0, GRID_WIDTH * 10, GRID_HEIGHT * 10>>],
       [fn |-> "canvas_set_fill_style", args |-> <<65280>>] >>
    \o [i \in 1 .. len |->
           [fn |-> "canvas_fill_rect",
            args |-> <<segs[i - 1].x * 10, segs[i - 1].y * 10, 10, 10>>]]
    \o << [fn |-> "canvas_set_fill_style", args |-> <<16711680>>],
          [fn |-> "canvas_fill_rect", args |-> <<a.x * 10, a.y * 10, 10, 10>>],
          [fn |-> "canvas_fill", args |-> << >>] >>

CanvasCalls == {"canvas_set_fill_style", "canvas_fill_rect", "canvas_fill"}

\* the calls end with one full repaint, and no canvas call comes before it
EndsWithOneRepaint(cs, segs, len, a) ==
    /\ Len(cs) >= len + 6
    /\ SubSeq(cs, Len(cs) - len - 5, Len(cs)) = FullRepaint(segs, len, a)
    /\ \A k \in 1 .. Len(cs) - len - 6 : cs[k].fn \notin CanvasCalls

\* C16: within a tick a period notification precedes the score notification
\* and both precede a game-over notification; every tick, also one that
\* signals game over or follows a game over, ends with exactly one repaint
\* (background, snake, food, flush) of the state after the update.
C16_NotifyThenRepaint ==
    [][TickUpdated =>
          /\ NotificationsInOrder(calls')
          /\ EndsWithOneRepaint(calls', segments', length', apple')]_vars

\* the same, of the ticks that returned
C16_ReturnedTicksRepaint ==
    [][TickReturned =>
          /\ NotificationsInOrder(calls')
          /\ EndsWithOneRepaint(calls', segments', length', apple')]_vars

\* ----------------------------------------------------------------------- C17
\* C17: on_key_down aborts exactly on a code other than 0, 1, 2, 3; the
\* aborted call leaves the heading and the rest of the session as they were
\* and calls no collaborator.
C17_UnknownCodeAborts ==
    [][last'.op = "on_key_down" =>
          /\ panicked' <=> last'.arg \notin {0, 1, 2, 3}
          /\ panicked' =>
                 /\ UNCHANGED <<segments, length, head_index, direction, apple,
                                step_period, score, next_reward>>
                 /\ calls' = << >>]_vars

\* an unknown code arrived in a running game, after a turn, and aborted
C17_Witness ==
    /\ last.op = "on_key_down" /\ last.arg \notin {0, 1, 2, 3}
    /\ panicked /\ ticks >= 1 /\ direction # "Right"

\* ----------------------------------------------------------------------- C18
\* C18: in every reachable state 0 <= head_index < length, so grow() is
\* never entered with head_index = length.
C18_HeadIndexInRange == 0 <= head_index /\ head_index < length

\* a grown snake whose head has moved into the last occupied slot: the next
\* move wraps
C18_Witness ==
    /\ length > INITIAL_LENGTH
    /\ head_index = length - 1
    /\ last.op = "step" /\ ~game_over /\ ~panicked

\* ----------------------------------------------------------------------- C19
\* C19: with n = length - 4, next_reward = 10 + 10 n, score = 5 n (n + 1)
\* and step_period = max(50, 300 - 25 n) in every reachable state.
C19_CountersFollowLength ==
    LET n == length - 4 IN
        /\ next_reward = 10 + 10 * n
        /\ score = 5 * n * (n + 1)
        /\ step_period = IF 300 - 25 * n > 50 THEN 300 - 25 * n ELSE 50

\* eleven apples eaten: the period has been held at its floor for one of them
C19_Witness == length = 15 /\ score = 660 /\ next_reward = 120 /\ step_period = 50

\* ----------------------------------------------------------------------- C20
\* C20: while no game over has been signalled the apple and every occupied
\* slot lie inside the grid, and no rectangle painted has a negative
\* coordinate.
C20_InGridBeforeGameOver ==
    ~game_over =>
        /\ InGrid(apple)
        /\ \A i \in 0 .. length - 1 : InGrid(segments[i])
        /\ \A k \in 1 .. Len(calls) :
               calls[k].fn = "canvas_fill_rect" =>
                   \A a \in 1 .. 4 : calls[k].args[a] >= 0

\* the head painted on the last column and the last row, the game going on
C20_Witness ==
    /\ ~game_over /\ last.op = "step"
    /\ segments[head_index] = [x |-> GRID_WIDTH - 1, y |-> GRID_HEIGHT - 1]
    /\ \E k \in 1 .. Len(calls) :
           /\ calls[k].fn = "canvas_fill_rect"
           /\ calls[k].args = <<(GRID_WIDTH - 1) * 10, (GRID_HEIGHT - 1) * 10, 10, 10>>

====
